---- MODULE Spec2Model ----
(***************************************************************************)
(* Bit-level encoders (CRC, variable-length integer, Rice) and the PCM     *)
(* WAV sample source of COE164MidP, as state machines.                     *)
(*                                                                         *)
(* Each component has its own specification over the shared variables; a   *)
(* component that a specification does not exercise stays "idle".          *)
(*   SpecCrc   src/src/flac/encoder/crc.rs   build / combine / re-check    *)
(*   SpecUtf8  src/src/flac/encoder/utf8.rs  Utf8Encoder::encode           *)
(*   SpecRice  src/src/flac/rice.rs          RiceEncoder::encode           *)
(*   SpecRiff  src/src/wav.rs                read_riff_chunk on a block    *)
(*   Spec      src/src/wav.rs                open_pcm, then the iterators  *)
(***************************************************************************)
EXTENDS Integers, Sequences, FiniteSets, TLC

VARIABLES crc, utf8, rice, riff, wav

vars == <<crc, utf8, rice, riff, wav>>

Idle == [pc |-> "idle"]

(***************************************************************************)
(* Shared arithmetic helpers.                                              *)
(***************************************************************************)

\* Bitwise exclusive or of two naturals (Rust's ^ on unsigned integers).
RECURSIVE Xor(_, _)
Xor(a, b) ==
    IF a = 0 THEN b
    ELSE IF b = 0 THEN a
    ELSE ((a + b) % 2) + 2 * Xor(a \div 2, b \div 2)

\* vec![v; n]
Repeat(v, n) == [i \in 1..n |-> v]

\* All sequences over S of length 0..n.
SeqsUpTo(S, n) == UNION {[1..k -> S] : k \in 0..n}

(***************************************************************************)
(* CRC engine: CrcOptions<u8> and CrcOptions<u16>.                         *)
(* `bits` is the width of the integer type T (8 or 16); `self` is the      *)
(* CrcOptions record [poly, poly_len].                                     *)
(***************************************************************************)

\* Largest data length drawn for the CRC inputs, and largest polynomial
\* enumerated exhaustively (the source's own polynomials are added).
MaxCrcData == 4
MaxCrcPoly == 7

\* The configurations and data of crc8_encode().
Crc8SrcPoly == 7
Crc16SrcPoly == 32773
CrcSrcData == <<1, 0, 1, 0, 1, 0, 1, 0, 1, 0>>

RECURSIVE bin_to_int_loop(_, _, _, _)
bin_to_int_loop(poly_len, bin_fmt, i, int_fmt) ==
    IF i >= poly_len THEN int_fmt
    ELSE bin_to_int_loop(poly_len, bin_fmt, i + 1,
            IF bin_fmt[i + 1] = 1
            THEN int_fmt + 2^(poly_len - 1 - i)
            ELSE int_fmt)

bin_to_int(self, bin_fmt) == bin_to_int_loop(self.poly_len, bin_fmt, 0, 0)

\* One pass of the division loop.  `acc` is [div, ovf]: the register as the
\* wrapping arithmetic leaves it, and whether `div*2 + bit` left the range of
\* T (an abort when the build checks overflow, a wrap when it does not).
crc_step(bits, self, acc, next_bit) ==
    LET msb == 2^(self.poly_len - 1)
        d0  == IF acc.div >= msb THEN acc.div - msb ELSE acc.div
        d1  == d0 * 2 + next_bit
        d2  == d1 % 2^bits
    IN  [div |-> IF acc.div >= msb THEN Xor(d2, self.poly) ELSE d2,
         ovf |-> acc.ovf \/ d1 >= 2^bits]

RECURSIVE build_crc_loop(_, _, _, _, _, _)
build_crc_loop(bits, self, div_orig, n, i, acc) ==
    IF i >= n THEN acc
    ELSE build_crc_loop(bits, self, div_orig, n, i + 1,
            crc_step(bits, self, acc, div_orig[self.poly_len + i + 1]))

build_crc(bits, self, data) ==
    LET div_orig == data \o Repeat(0, self.poly_len)
        div      == bin_to_int(self, SubSeq(div_orig, 1, self.poly_len))
    IN  build_crc_loop(bits, self, div_orig, Len(data), 0,
                       [div |-> div, ovf |-> FALSE])

build_crc8(self, data) == build_crc(8, self, data)

build_crc16(self, data) == build_crc(16, self, data)

\* `checksum << 1` drops the bits shifted out of T and never aborts.
RECURSIVE combine_crc_loop(_, _, _, _, _)
combine_crc_loop(bits, self, data, checksum, i) ==
    IF i >= self.poly_len THEN data
    ELSE LET bit == checksum \div 2^(self.poly_len - 1)
         IN  combine_crc_loop(bits, self, Append(data, bit),
                              (checksum * 2) % 2^bits, i + 1)

combine_crc(bits, self, data, checksum) ==
    combine_crc_loop(bits, self, data, checksum, 0)

combine_crc8(self, data, checksum) == combine_crc(8, self, data, checksum)

combine_crc16(self, data, checksum) == combine_crc(16, self, data, checksum)

CrcBuild(c, data) ==
    IF c.bits = 8 THEN build_crc8(c.self, data) ELSE build_crc16(c.self, data)

CrcCombine(c, data, checksum) ==
    IF c.bits = 8 THEN combine_crc8(c.self, data, checksum)
    ELSE combine_crc16(c.self, data, checksum)

CrcPolys(bits, poly_len) ==
    {p \in (0..MaxCrcPoly) \cup {Crc8SrcPoly, Crc16SrcPoly} : p < 2^poly_len}

CrcData == SeqsUpTo({0, 1}, MaxCrcData) \cup {CrcSrcData}

\* A CrcOptions::new(poly, poly_len) of either instance, a bit sequence to
\* protect, and the build profile (whether arithmetic overflow aborts).
CrcInit ==
    \E b \in {8, 16} : \E w \in 1..b : \E p \in CrcPolys(b, w) :
    \E d \in CrcData : \E pr \in {"debug", "release"} :
        crc = [pc |-> "new", bits |-> b,
               self |-> [poly |-> p, poly_len |-> w],
               data |-> d, profile |-> pr, checksum |-> 0,
               data_with_crc |-> <<>>, check |-> 0]

\* let checksum = builder.build_crc(&data);
CrcBuildChecksum ==
    /\ crc.pc = "new"
    /\ LET r == CrcBuild(crc, crc.data)
       IN  crc' = IF r.ovf /\ crc.profile = "debug"
                  THEN [crc EXCEPT !.pc = "panicked"]
                  ELSE [crc EXCEPT !.pc = "built", !.checksum = r.div]
    /\ UNCHANGED <<utf8, rice, riff, wav>>

\* let data_with_crc = builder.combine_crc(data.clone(), checksum);
CrcCombineChecksum ==
    /\ crc.pc = "built"
    /\ crc' = [crc EXCEPT !.pc = "combined",
                          !.data_with_crc = CrcCombine(crc, crc.data, crc.checksum)]
    /\ UNCHANGED <<utf8, rice, riff, wav>>

\* let check = builder.build_crc(&data_with_crc);
CrcCheck ==
    /\ crc.pc = "combined"
    /\ LET r == CrcBuild(crc, crc.data_with_crc)
       IN  crc' = IF r.ovf /\ crc.profile = "debug"
                  THEN [crc EXCEPT !.pc = "panicked"]
                  ELSE [crc EXCEPT !.pc = "checked", !.check = r.div]
    /\ UNCHANGED <<utf8, rice, riff, wav>>

InitCrc ==
    /\ CrcInit
    /\ utf8 = Idle /\ rice = Idle /\ riff = Idle /\ wav = Idle

NextCrc == CrcBuildChecksum \/ CrcCombineChecksum \/ CrcCheck

SpecCrc == InitCrc /\ [][NextCrc]_vars

IsBitSeq(s) == \A i \in 1..Len(s) : s[i] \in {0, 1}

\* C1: for every supported width, polynomial and bit sequence b, the checksum
\* of combine_crc(b, build_crc(b)) is computed (no abort) and equals 0.
C1_CrcFixedPoint ==
    crc.pc \in {"checked", "panicked"} => (crc.pc = "checked" /\ crc.check = 0)

\* C12: for a checksum c below 2^w, combine_crc(d, c) is d unchanged followed
\* by exactly w elements, the bits of c from most to least significant.
C12_CombineBits ==
    (/\ crc.pc \in {"combined", "checked"}
     /\ crc.checksum < 2^crc.self.poly_len) =>
        LET w == crc.self.poly_len
            d == crc.data
            r == crc.data_with_crc
        IN  /\ Len(r) = Len(d) + w
            /\ SubSeq(r, 1, Len(d)) = d
            /\ \A i \in 1..w :
                  r[Len(d) + i] = (crc.checksum \div 2^(w - i)) % 2

(***************************************************************************)
(* Variable-length integer encoder: Utf8Encoder::encode(num: u64).         *)
(* A u64 is held as two limbs [hi, lo], value = hi * 2^16 + lo, so that    *)
(* values beyond 2^31 stay representable; all arithmetic on it is done     *)
(* limb-wise, as the code does it on the machine word.                     *)
(***************************************************************************)

LimbBase == 2^16

\* Largest significant-bit count among the boundary inputs, and the range of
\* small inputs enumerated exhaustively.
MaxUtf8Bits == 42
MaxUtf8Small == 300

U64(hi, lo) == [hi |-> hi, lo |-> lo]

U64IsZero(n) == n.hi = 0 /\ n.lo = 0

\* int_fmt / 2
U64Half(n) == U64(n.hi \div 2, (n.hi % 2) * (LimbBase \div 2) + n.lo \div 2)

\* int_fmt - int_fmt/2*2
U64LowBit(n) == n.lo - (n.lo \div 2) * 2

\* The natural number whose bits from position i on, least significant
\* first, are bits[i..].
RECURSIVE NatFromBitsAt(_, _)
NatFromBitsAt(bits, i) ==
    IF i > Len(bits) THEN 0 ELSE bits[i] + 2 * NatFromBitsAt(bits, i + 1)

\* The u64 whose bits, least significant first, are `bits`.
U64FromBits(bits) ==
    U64(NatFromBitsAt(bits, 17),
        NatFromBitsAt(SubSeq(bits, 1, IF Len(bits) < 16 THEN Len(bits) ELSE 16), 1))

RECURSIVE int_to_bin(_)
int_to_bin(int_fmt) ==
    IF U64IsZero(int_fmt) THEN <<>>
    ELSE <<U64LowBit(int_fmt)>> \o int_to_bin(U64Half(int_fmt))

Cont == <<1, 0, 2, 2, 2, 2, 2, 2>>

\* The template chosen by the if / else-if chain; 2 marks a free slot.
utf8_template(len) ==
    IF len <= 7 THEN <<0, 2, 2, 2, 2, 2, 2>>
    ELSE IF len <= 11 THEN <<1, 1, 0, 2, 2, 2, 2, 2>> \o Cont
    ELSE IF len <= 16 THEN <<1, 1, 1, 0, 2, 2, 2, 2>> \o Cont \o Cont
    ELSE IF len <= 21 THEN <<1, 1, 1, 1, 0, 2, 2, 2>> \o Cont \o Cont \o Cont
    ELSE IF len <= 26
         THEN <<1, 1, 1, 1, 1, 0, 2, 2>> \o Cont \o Cont \o Cont \o Cont
    ELSE IF len <= 31
         THEN <<1, 1, 1, 1, 1, 1, 0, 2>> \o Cont \o Cont \o Cont \o Cont \o Cont
    ELSE IF len <= 40
         THEN <<1, 1, 1, 1, 1, 1, 1, 0>>
              \o Cont \o Cont \o Cont \o Cont \o Cont \o Cont
    ELSE <<>>

\* while bin_temp[bit_sel] != 2 { bit_sel -= 1; }   (bit_sel is 0-based)
\* -1 stands for the abort: `bit_sel -= 1` at 0 overflows usize (checked
\* build) or wraps to usize::MAX and the next index is out of bounds.
RECURSIVE utf8_seek(_, _)
utf8_seek(bin_temp, bit_sel) ==
    IF bin_temp[bit_sel + 1] = 2 THEN bit_sel
    ELSE IF bit_sel = 0 THEN -1
    ELSE utf8_seek(bin_temp, bit_sel - 1)

RECURSIVE utf8_fill(_, _, _, _)
utf8_fill(bin_temp, bit_sel, num_vec, i) ==
    IF i > Len(num_vec) THEN [panic |-> FALSE, bits |-> bin_temp]
    ELSE LET sel == utf8_seek(bin_temp, bit_sel)
         IN  IF sel < 0 THEN [panic |-> TRUE, bits |-> <<>>]
             ELSE utf8_fill([bin_temp EXCEPT ![sel + 1] = num_vec[i]],
                            sel, num_vec, i + 1)

\* The result is [panic, bits].  With an empty template `bin_temp.len()-1`
\* overflows (checked build) or wraps, and then the first index aborts: the
\* empty template is only chosen when num_vec has more than 40 elements.
Utf8Encoder_encode(num) ==
    LET num_vec  == int_to_bin(num)
        bin_temp == utf8_template(Len(num_vec))
    IN  IF bin_temp = <<>> THEN [panic |-> TRUE, bits |-> <<>>]
        ELSE LET r == utf8_fill(bin_temp, Len(bin_temp) - 1, num_vec, 1)
             IN  IF r.panic THEN r
                 ELSE [panic |-> FALSE,
                       bits  |-> [i \in 1..Len(r.bits) |->
                                    IF r.bits[i] = 2 THEN 0 ELSE r.bits[i]]]

\* Inputs: every small value, and for each bit count k the smallest k-bit
\* value, the largest, and the alternating pattern 1x1x..1 of k bits.
Utf8Boundary(k) ==
    {U64FromBits([i \in 1..k |-> IF i = k THEN 1 ELSE 0]),
     U64FromBits([i \in 1..k |-> 1]),
     U64FromBits([i \in 1..k |-> IF i = k \/ i % 2 = 1 THEN 1 ELSE 0])}

Utf8Inputs ==
    {U64(0, v) : v \in 0..MaxUtf8Small}
      \cup UNION {Utf8Boundary(k) : k \in 1..MaxUtf8Bits}

Utf8Call ==
    /\ utf8.pc = "new"
    /\ LET r == Utf8Encoder_encode(utf8.num)
       IN  utf8' = IF r.panic
                   THEN [pc |-> "panicked", num |-> utf8.num, ret |-> <<>>]
                   ELSE [pc |-> "returned", num |-> utf8.num, ret |-> r.bits]
    /\ UNCHANGED <<crc, rice, riff, wav>>

InitUtf8 ==
    /\ \E n \in Utf8Inputs : utf8 = [pc |-> "new", num |-> n, ret |-> <<>>]
    /\ crc = Idle /\ rice = Idle /\ riff = Idle /\ wav = Idle

NextUtf8 == Utf8Call

SpecUtf8 == InitUtf8 /\ [][NextUtf8]_vars

\* n < 2^k, for a two-limb n.
U64Below2Pow(n, k) ==
    IF k >= 16 THEN n.hi < 2^(k - 16) ELSE n.hi = 0 /\ n.lo < 2^k

\* The table of the variable-length scheme: row r holds values of at most
\* Utf8Rows[r] significant bits in r bytes.
Utf8Rows == <<7, 11, 16, 21, 26, 31, 36>>

Utf8ByteCount(n) ==
    CHOOSE r \in 1..7 :
        /\ U64Below2Pow(n, Utf8Rows[r])
        /\ \A q \in 1..(r - 1) : ~U64Below2Pow(n, Utf8Rows[q])

Utf8InRange(n) == U64Below2Pow(n, 36)

\* C2: for every value in [0, 2^36) encode returns 8*n bits, n the smallest
\* row of the table that holds the value; the leading byte carries the row's
\* prefix (0 for one byte, n ones and a zero otherwise) and every
\* continuation byte starts with 1,0.
C2_Utf8Length ==
    (utf8.pc \in {"returned", "panicked"} /\ Utf8InRange(utf8.num)) =>
        LET n == Utf8ByteCount(utf8.num)
            b == utf8.ret
        IN  /\ utf8.pc = "returned"
            /\ IsBitSeq(b)
            /\ Len(b) = 8 * n
            /\ IF n = 1 THEN b[1] = 0
               ELSE (\A i \in 1..n : b[i] = 1) /\ b[n + 1] = 0
            /\ \A j \in 2..n : b[8 * (j - 1) + 1] = 1 /\ b[8 * (j - 1) + 2] = 0

\* The inverse rule of the scheme: the leading 1-bits of the first byte give
\* the byte count, every continuation byte must start with 1,0, and the
\* payload bits are reassembled most significant first.
Utf8LeadingOnes(bits) ==
    CHOOSE k \in 0..8 :
        /\ \A i \in 1..k : bits[i] = 1
        /\ k < 8 => bits[k + 1] # 1

Utf8DecodeFail == [ok |-> FALSE, value |-> U64(0, 0)]

Utf8Decode(bits) ==
    IF Len(bits) < 8 \/ ~IsBitSeq(bits) THEN Utf8DecodeFail
    ELSE LET ones == Utf8LeadingOnes(bits)
             n    == IF ones = 0 THEN 1 ELSE ones
         IN  IF ones = 1 \/ ones = 8 \/ Len(bits) # 8 * n THEN Utf8DecodeFail
             ELSE IF \E j \in 2..n : ~(bits[8 * (j - 1) + 1] = 1
                                       /\ bits[8 * (j - 1) + 2] = 0)
             THEN Utf8DecodeFail
             ELSE LET first   == IF ones = 0 THEN SubSeq(bits, 2, 8)
                                 ELSE SubSeq(bits, ones + 2, 8)
                      nfirst  == Len(first)
                      npay    == nfirst + 6 * (n - 1)
                      \* payload, most significant bit first
                      payload == [i \in 1..npay |->
                                    IF i <= nfirst THEN first[i]
                                    ELSE LET c == (i - nfirst - 1) \div 6
                                             o == (i - nfirst - 1) % 6
                                         IN  bits[8 * (c + 1) + 3 + o]]
                  IN  [ok |-> TRUE,
                       value |-> U64FromBits([i \in 1..npay |->
                                                payload[npay + 1 - i]])]

\* C3: for every value in [0, 2^36) encode returns a bit sequence that the
\* inverse rule decodes to exactly that value (so distinct values never share
\* an encoding).
C3_Utf8RoundTrip ==
    (utf8.pc \in {"returned", "panicked"} /\ Utf8InRange(utf8.num)) =>
        /\ utf8.pc = "returned"
        /\ Utf8Decode(utf8.ret) = [ok |-> TRUE, value |-> utf8.num]

\* C4: for every value of more than 36 significant bits encode reports an
\* out-of-range failure: it neither aborts nor returns a bit sequence.
C4_Utf8RangeError ==
    (utf8.pc \in {"returned", "panicked"} /\ ~Utf8InRange(utf8.num)) =>
        utf8.pc = "range_error"

(***************************************************************************)
(* Rice coder: RiceEncoder::encode(num: u64), with its parameter fixed in  *)
(* the function body.                                                      *)
(***************************************************************************)

\* let param = 16; let k = 4;
RiceParam == 16
RiceK == 4

\* Largest value drawn as input, and largest Rice parameter a caller may
\* have in mind.
MaxRiceNum == 70
MaxRiceK == 5

\* Bitwise and of two naturals (Rust's & on unsigned integers).
RECURSIVE BitAnd(_, _)
BitAnd(a, b) ==
    IF a = 0 \/ b = 0 THEN 0
    ELSE (a % 2) * (b % 2) + 2 * BitAnd(a \div 2, b \div 2)

\* for i in (0..k).rev() { push((bin/(1<<i)) as u8); bin -= (bin/(1<<i))*(1<<i) }
\* `i` counts down from k-1 to 0; i = -1 ends the loop.
RECURSIVE rice_binary(_, _, _)
rice_binary(rice_encoding, bin, i) ==
    IF i < 0 THEN rice_encoding
    ELSE rice_binary(Append(rice_encoding, (bin \div 2^i) % 256),
                     bin - (bin \div 2^i) * 2^i, i - 1)

\* The same function with the mask taken as `param` instead of `param - 1`.
RiceEncoder_encode_mask(num) ==
    LET unary == num \div 2^RiceK
        bin   == BitAnd(num, RiceParam)
    IN  rice_binary(Append(Repeat(1, unary), 0), bin, RiceK - 1)

RiceEncoder_encode(num) ==
    LET unary == num \div 2^RiceK
        bin   == BitAnd(num, RiceParam - 1)
    IN  rice_binary(Append(Repeat(1, unary), 0), bin, RiceK - 1)

RiceCall ==
    /\ rice.pc = "new"
    /\ rice' = [pc |-> "returned", num |-> rice.num,
                ret |-> RiceEncoder_encode(rice.num)]
    /\ UNCHANGED <<crc, utf8, riff, wav>>

InitRice ==
    /\ \E n \in 0..MaxRiceNum : rice = [pc |-> "new", num |-> n, ret |-> <<>>]
    /\ crc = Idle /\ utf8 = Idle /\ riff = Idle /\ wav = Idle

NextRice == RiceCall

SpecRice == InitRice /\ [][NextRice]_vars

\* The Rice code of value under parameter k, as the scheme defines it.
RiceCode(value, k) ==
    [i \in 1..(value \div 2^k) |-> 1] \o <<0>>
        \o [i \in 1..k |-> (value \div 2^(k - i)) % 2]

\* Decoding: count ones up to the first zero, multiply by 2^k, add the next
\* k bits read most significant first.  -1 when the bits are no Rice code.
RiceDecode(bits, k) ==
    IF ~IsBitSeq(bits) \/ \A i \in 1..Len(bits) : bits[i] = 1 THEN -1
    ELSE LET q == (CHOOSE i \in 1..Len(bits) :
                      bits[i] = 0 /\ \A j \in 1..(i - 1) : bits[j] = 1) - 1
         IN  IF Len(bits) # q + 1 + k THEN -1
             ELSE LET r[i \in 0..k] ==
                          IF i = 0 THEN 0 ELSE 2 * r[i - 1] + bits[q + 1 + i]
                  IN  q * 2^k + r[k]

RiceHolds(value, bits, k) ==
    /\ bits = RiceCode(value, k)
    /\ Len(bits) = (value \div 2^k) + 1 + k
    /\ RiceDecode(bits, k) = value
    /\ value = 0 => bits = [i \in 1..(k + 1) |-> 0]

TagRIFF == <<82, 73, 70, 70>>
TagRIFX == <<82, 73, 70, 88>>
TagWAVE == <<87, 65, 86, 69>>
TagFmt  == <<102, 109, 116, 32>>
TagData == <<100, 97, 116, 97>>

\* LittleEndian::read_u32 / read_u16 and u32::from_be_bytes
LittleEndian_read_u32(b) == U64(b[3] + 256 * b[4], b[1] + 256 * b[2])

LittleEndian_read_u16(b) == b[1] + 256 * b[2]

u32_from_be_bytes(b) == U64(b[2] + 256 * b[1], b[4] + 256 * b[3])

\* The bytes buffer[from..to] of Rust (0-based, `to` exclusive).
Slice(buffer, from, to) == SubSeq(buffer, from + 1, to)

Ok(v) == [err |-> "none", val |-> v]

Err(e) == [err |-> e, val |-> <<>>]

\* read_riff_chunk with the format tag left unchecked.
read_riff_chunk_nowave(file) ==
    IF Len(file) < 12 THEN Err("ReadError")
    ELSE LET buffer == Slice(file, 0, 12)
         IN  IF Slice(buffer, 0, 4) # TagRIFF /\ Slice(buffer, 0, 4) # TagRIFX
             THEN Err("NotRiffError")
             ELSE LET is_big_endian == Slice(buffer, 0, 4) = TagRIFX
                      file_size ==
                          IF is_big_endian
                          THEN u32_from_be_bytes(Slice(buffer, 4, 8))
                          ELSE LittleEndian_read_u32(Slice(buffer, 4, 8))
                  IN  Ok([file_size |-> file_size,
                          is_big_endian |-> is_big_endian])

\* fh.read_exact(&mut buffer) on a handle at offset 0, then the checks.
read_riff_chunk(file) ==
    IF Len(file) < 12 THEN Err("ReadError")
    ELSE LET buffer == Slice(file, 0, 12)
         IN  IF Slice(buffer, 0, 4) # TagRIFF /\ Slice(buffer, 0, 4) # TagRIFX
             THEN Err("NotRiffError")
             ELSE LET is_big_endian == Slice(buffer, 0, 4) = TagRIFX
                      file_size ==
                          IF is_big_endian
                          THEN u32_from_be_bytes(Slice(buffer, 4, 8))
                          ELSE LittleEndian_read_u32(Slice(buffer, 4, 8))
                  IN  IF Slice(buffer, 8, 12) # TagWAVE
                      THEN Err("NotWaveError")
                      ELSE Ok([file_size |-> file_size,
                               is_big_endian |-> is_big_endian])

\* Identification blocks: every byte of the two tags is either the expected
\* one or a corrupted one (the fourth tag byte may also be the X of RIFX),
\* and the size field ranges over the bytes the unit tests use.
RiffSizeEnds == {0, 28, 128, 255}
RiffSizeMids == {0, 54, 64}

RiffBlocks ==
    {<<t1, t2, t3, t4>> \o z \o <<f1, f2, f3, f4>> :
        t1 \in {82, 0}, t2 \in {73, 0}, t3 \in {70, 0}, t4 \in {70, 88, 0},
        z \in RiffSizeEnds \X RiffSizeMids \X RiffSizeMids \X RiffSizeEnds,
        f1 \in {87, 0}, f2 \in {65, 0}, f3 \in {86, 0}, f4 \in {69, 0}}

RiffCall ==
    /\ riff.pc = "new"
    /\ riff' = [pc |-> "returned", file |-> riff.file,
                ret |-> read_riff_chunk(riff.file)]
    /\ UNCHANGED <<crc, utf8, rice, wav>>

InitRiff ==
    /\ \E b \in RiffBlocks : riff = [pc |-> "new", file |-> b, ret |-> Err("none")]
    /\ crc = Idle /\ utf8 = Idle /\ rice = Idle /\ wav = Idle

NextRiff == RiffCall

SpecRiff == InitRiff /\ [][NextRiff]_vars

\* C6: on a 12-byte block read_riff_chunk succeeds exactly when bytes 0..4
\* are RIFF or RIFX and bytes 8..12 are WAVE; then is_big_endian is true iff
\* the tag is RIFX, and file_size is bytes 4..8 read little-endian for RIFF
\* and big-endian for RIFX; otherwise it returns an error and no RiffChunk.
C6_ReadRiff ==
    (riff.pc = "returned" /\ Len(riff.file) = 12) =>
        LET b    == riff.file
            riffT == <<b[1], b[2], b[3], b[4]>> = <<82, 73, 70, 70>>
            rifxT == <<b[1], b[2], b[3], b[4]>> = <<82, 73, 70, 88>>
            waveT == <<b[9], b[10], b[11], b[12]>> = <<87, 65, 86, 69>>
            fs   == riff.ret.val.file_size
            \* the four base-256 digits of file_size, least significant first
            dig  == <<fs.lo % 256, fs.lo \div 256, fs.hi % 256, fs.hi \div 256>>
        IN  /\ riff.ret.err = "none" <=> ((riffT \/ rifxT) /\ waveT)
            /\ riff.ret.err = "none" =>
                 /\ riff.ret.val.is_big_endian = rifxT
                 /\ riffT => dig = <<b[5], b[6], b[7], b[8]>>
                 /\ rifxT => dig = <<b[8], b[7], b[6], b[5]>>
            /\ riff.ret.err # "none" => riff.ret.val = <<>>

\* The unit test it_valid_be_02: RIFX, size bytes 00 36 40 1C, WAVE.
C6_Witness ==
    /\ riff.pc = "returned"
    /\ riff.file = <<82, 73, 70, 88, 0, 54, 64, 28, 87, 65, 86, 69>>
    /\ riff.ret.err = "none"
    /\ riff.ret.val.is_big_endian
    /\ riff.ret.val.file_size.hi * 65536 + riff.ret.val.file_size.lo = 3555356

(***************************************************************************)
(* open_pcm and the two iterators.  `wav` holds the file, the result of    *)
(* open_pcm (PCMWaveInfo with its one data chunk), the cursor of data_buf, *)
(* the window size once the chunk has been moved into a window iterator,   *)
(* and the last value each iterator returned.                              *)
(***************************************************************************)

\* Bounds of the files and calls drawn.
MaxChannels == 3
MaxBytesPerSample == 2
MaxSampRate == 2
MaxBody == 6
MaxChunk == 3
\* Cap on the pulls followed when an iterator never ends (block_align or
\* chunk_size of 0), and on the counted pulls that returned end-of-stream.
MaxPulls == 4
MaxEndPulls == 2

\* read_data_chunk(36, ..): the offset of the payload block's header.
DataChunkPos == 36

\* 0x20746D66 ("fmt ") and 0x61746164 ("data") as two limbs.
FmtChunkId == U64(8308, 28006)
DataChunkId == U64(24948, 24932)

\* A u32 as an integer (the files drawn keep these fields below 2^31).
U32Int(u) == u.hi * LimbBase + u.lo

NotYet == [tag |-> "NotYet", val |-> <<>>]
None == [tag |-> "None", val |-> <<>>]
Some(v) == [tag |-> "Some", val |-> v]

\* read_fmt_chunk without the test of the encoding flag.
read_fmt_chunk_nopcm(file) ==
    IF Len(file) < 36 THEN Err("ReadError")
    ELSE LET buffer == Slice(file, 12, 36)
             chunk_id == LittleEndian_read_u32(Slice(buffer, 0, 4))
         IN  IF chunk_id # FmtChunkId THEN Err("ChunkTypeError")
             ELSE Ok([num_channels |-> LittleEndian_read_u16(Slice(buffer, 10, 12)),
                      samp_rate |-> U32Int(LittleEndian_read_u32(Slice(buffer, 12, 16))),
                      bps |-> LittleEndian_read_u16(Slice(buffer, 22, 24))])

\* fh.read_exact(24 bytes) on the handle read_riff_chunk left at offset 12.
read_fmt_chunk(file) ==
    IF Len(file) < 36 THEN Err("ReadError")
    ELSE LET buffer == Slice(file, 12, 36)
             chunk_id == LittleEndian_read_u32(Slice(buffer, 0, 4))
             audio_format == LittleEndian_read_u16(Slice(buffer, 8, 10))
         IN  IF chunk_id # FmtChunkId THEN Err("ChunkTypeError")
             ELSE IF audio_format # 1 THEN Err("NotPCMError")
             ELSE Ok([num_channels |-> LittleEndian_read_u16(Slice(buffer, 10, 12)),
                      samp_rate |-> U32Int(LittleEndian_read_u32(Slice(buffer, 12, 16))),
                      bps |-> LittleEndian_read_u16(Slice(buffer, 22, 24))])

\* seek(start_pos), read_exact(8 bytes), then the tag check.  The value is
\* the PCMWaveDataChunk and the cursor of its data_buf.
read_data_chunk(start_pos, fmt_info, file) ==
    IF Len(file) < start_pos + 8 THEN Err("ReadError")
    ELSE LET buffer == Slice(file, start_pos, start_pos + 8)
             chunk_id == LittleEndian_read_u32(Slice(buffer, 0, 4))
             size_bytes == U32Int(LittleEndian_read_u32(Slice(buffer, 4, 8)))
         IN  IF chunk_id # DataChunkId THEN Err("ChunkTypeError")
             ELSE Ok([size_bytes |-> size_bytes, format |-> fmt_info,
                      pos |-> start_pos + 8])

\* File::open, then the three readers, each `?` returning the first error.
open_pcm(present, file) ==
    IF ~present THEN Err("ReadError")
    ELSE LET riff_header == read_riff_chunk(file)
         IN  IF riff_header.err # "none" THEN Err(riff_header.err)
             ELSE LET fmt_header == read_fmt_chunk(file)
                  IN  IF fmt_header.err # "none" THEN Err(fmt_header.err)
                      ELSE LET data == read_data_chunk(DataChunkPos,
                                                       fmt_header.val, file)
                           IN  IF data.err # "none" THEN Err(data.err)
                               ELSE Ok([riff_header |-> riff_header.val,
                                        fmt_header |-> fmt_header.val,
                                        data_chunk |-> data.val])

\* PCMWaveFormatChunk::byte_rate (u32) and block_align (u16); the formats
\* drawn keep both products far below the width of their type.
byte_rate(format) ==
    (format.samp_rate * format.num_channels * format.bps) \div 8

block_align(format) == (format.num_channels * format.bps) \div 8

\* `x as i64` of an i16 read from two bytes, little-endian.
I16(u) == IF u >= 32768 THEN u - 65536 ELSE u

\* The match on total_channels; [panic, v].  LittleEndian::read_i16 aborts
\* on a slice shorter than two bytes.
sample_value(total_channels, sample_bytes) ==
    IF total_channels = 1 THEN [panic |-> FALSE, v |-> sample_bytes[1]]
    ELSE IF total_channels = 2
    THEN IF Len(sample_bytes) < 2 THEN [panic |-> TRUE, v |-> 0]
         ELSE [panic |-> FALSE,
               v |-> I16(LittleEndian_read_u16(SubSeq(sample_bytes, 1, 2)))]
    ELSE [panic |-> FALSE, v |-> sample_bytes[1]]

\* buffer.chunks_exact(bytes_per_sample).map(..).collect(); [panic, samples].
\* chunks_exact(0) aborts.
decode_group(format, buffer) ==
    LET bytes_per_sample == format.bps \div 8
    IN  IF bytes_per_sample = 0 THEN [panic |-> TRUE, samples |-> <<>>]
        ELSE LET n == Len(buffer) \div bytes_per_sample
                 s == [i \in 1..n |->
                         sample_value(format.num_channels,
                             SubSeq(buffer, (i - 1) * bytes_per_sample + 1,
                                    i * bytes_per_sample))]
             IN  [panic |-> \E i \in 1..n : s[i].panic,
                  samples |-> [i \in 1..n |-> s[i].v]]

BumpEnd(n) == IF n < MaxEndPulls THEN n + 1 ELSE n

\* PCMWaveDataChunk::next with a failed read seeking back to the start of
\* the payload.
chunk_next_rewind(w) ==
    LET ba == block_align(w.format)
    IN  IF w.pos + ba > Len(w.file)
        THEN [w EXCEPT !.pos = DataChunkPos + 8, !.last_group = None,
                       !.group_ends = BumpEnd(@)]
        ELSE LET d == decode_group(w.format, SubSeq(w.file, w.pos + 1, w.pos + ba))
             IN  IF d.panic THEN [w EXCEPT !.pc = "panicked"]
                 ELSE [w EXCEPT !.pos = @ + ba, !.last_group = Some(d.samples),
                                !.produced = @ + 1]

\* PCMWaveDataChunk::next on the data chunk held in w.  read_exact fills
\* the block_align bytes or fails; a failed read has consumed what was left
\* of the file, and `.ok()` turns the failure into None.  size_bytes is not
\* consulted.
chunk_next(w) ==
    LET ba == block_align(w.format)
    IN  IF w.pos + ba > Len(w.file)
        THEN [w EXCEPT !.pos = Len(w.file), !.last_group = None,
                       !.group_ends = BumpEnd(@)]
        ELSE LET d == decode_group(w.format, SubSeq(w.file, w.pos + 1, w.pos + ba))
             IN  IF d.panic THEN [w EXCEPT !.pc = "panicked"]
                 ELSE [w EXCEPT !.pos = @ + ba, !.last_group = Some(d.samples),
                                !.produced = @ + 1]

\* for _ in 0..num_samples { .. } of PCMWaveDataChunkWindow::next; the
\* result is [w, ret].
RECURSIVE window_loop(_, _, _)
window_loop(w, i, buffer) ==
    IF i >= w.chunk_size THEN [w |-> w, ret |-> Some(buffer)]
    ELSE LET w1 == chunk_next(w)
         IN  IF w1.pc = "panicked" THEN [w |-> w1, ret |-> None]
             ELSE IF w1.last_group.tag = "Some"
             THEN window_loop(w1, i + 1, Append(buffer, w1.last_group.val))
             ELSE [w |-> w1,
                   ret |-> IF buffer = <<>> THEN None ELSE Some(buffer)]

window_next(w) ==
    LET r == window_loop(w, 0, <<>>)
    IN  IF r.w.pc = "panicked" THEN r.w
        ELSE [r.w EXCEPT !.last_window = r.ret,
                         !.win_index = IF r.ret.tag = "Some" THEN @ + 1 ELSE @,
                         !.window_ends = IF r.ret.tag = "None" THEN BumpEnd(@) ELSE @]

(***************************************************************************)
(* The files opened.                                                       *)
(***************************************************************************)

LE16(n) == <<n % 256, n \div 256>>

LE32(n) == <<n % 256, (n \div 256) % 256, (n \div 65536) % 256, n \div 16777216>>

\* Two payload byte patterns: 1, 2, 3, .. and a mix of bytes on both sides
\* of 128 (205, 26, 103, 180, 1, 78, ..).
BodyOf(pat, n) ==
    [i \in 1..n |-> IF pat = "count" THEN i ELSE (i * 77 + 128) % 256]

WavFile(riffTag, waveTag, fmtTag, audio_format, f, dataTag, size_bytes, body) ==
    riffTag \o LE32(36 + size_bytes) \o waveTag
      \o fmtTag \o LE32(16) \o LE16(audio_format) \o LE16(f.num_channels)
      \o LE32(f.samp_rate) \o LE32(byte_rate(f)) \o LE16(block_align(f))
      \o LE16(f.bps)
      \o dataTag \o LE32(size_bytes) \o body

WavFormats ==
    {[num_channels |-> c, samp_rate |-> r, bps |-> 8 * b] :
        c \in 0..MaxChannels, r \in 1..MaxSampRate, b \in 0..MaxBytesPerSample}

\* Well-formed headers over every format, declared size and body; the body
\* may be shorter than declared (a truncated file) or longer (bytes follow
\* the payload).
GoodFiles ==
    {WavFile(TagRIFF, TagWAVE, TagFmt, 1, f, TagData, z, BodyOf(pat, n)) :
        f \in WavFormats, z \in 0..(MaxBody + 1), pat \in {"count", "mixed"},
        n \in 0..MaxBody}

PlainFormat == [num_channels |-> 1, samp_rate |-> 1, bps |-> 8]

\* One small file with each part of the header varied in turn, and its
\* truncations.
OddFiles ==
    LET body == BodyOf("count", 2)
        good == WavFile(TagRIFF, TagWAVE, TagFmt, 1, PlainFormat, TagData, 2, body)
    IN  {WavFile(TagRIFX, TagWAVE, TagFmt, 1, PlainFormat, TagData, 2, body),
         WavFile(<<0, 73, 70, 70>>, TagWAVE, TagFmt, 1, PlainFormat, TagData, 2, body),
         WavFile(TagRIFF, <<87, 65, 86, 0>>, TagFmt, 1, PlainFormat, TagData, 2, body),
         WavFile(TagRIFF, TagWAVE, <<102, 109, 116, 0>>, 1, PlainFormat, TagData, 2, body),
         WavFile(TagRIFF, TagWAVE, TagFmt, 3, PlainFormat, TagData, 2, body),
         WavFile(TagRIFF, TagWAVE, TagFmt, 0, PlainFormat, TagData, 2, body),
         WavFile(TagRIFF, TagWAVE, TagFmt, 1, PlainFormat, <<76, 73, 83, 84>>, 2, body),
         \* several parts wrong at once
         WavFile(<<0, 73, 70, 70>>, <<87, 65, 86, 0>>, <<102, 109, 116, 0>>, 3,
                 PlainFormat, <<76, 73, 83, 84>>, 2, body),
         WavFile(TagRIFX, <<87, 65, 86, 0>>, <<102, 109, 116, 0>>, 3,
                 PlainFormat, <<76, 73, 83, 84>>, 2, body),
         WavFile(TagRIFF, TagWAVE, <<102, 109, 116, 0>>, 3,
                 PlainFormat, <<76, 73, 83, 84>>, 2, body),
         WavFile(TagRIFF, TagWAVE, TagFmt, 3,
                 PlainFormat, <<76, 73, 83, 84>>, 2, body)}
        \cup {SubSeq(good, 1, n) : n \in {0, 11, 12, 35, 36, 43}}

\* Files whose format gives a byte rate of 0: a sample rate of 0.
ZeroRateFiles ==
    {WavFile(TagRIFF, TagWAVE, TagFmt, 1,
             [num_channels |-> c, samp_rate |-> 0, bps |-> 8], TagData, n,
             BodyOf("count", n)) : c \in 1..2, n \in {0, 2}}

WavNew(present, file) ==
    [pc |-> "unopened", present |-> present, file |-> file, err |-> "none",
     riff_header |-> [file_size |-> U64(0, 0), is_big_endian |-> FALSE],
     format |-> [num_channels |-> 0, samp_rate |-> 0, bps |-> 0],
     size_bytes |-> 0, pos |-> 0, chunk_size |-> 0, via |-> "none",
     last_group |-> NotYet, last_at |-> 0, produced |-> 0, direct |-> 0,
     group_ends |-> 0,
     last_window |-> NotYet, win_index |-> 0, window_ends |-> 0]

\* WaveReader::open_pcm(file_path)
OpenPcm ==
    /\ wav.pc = "unopened"
    /\ LET r == open_pcm(wav.present, wav.file)
       IN  wav' = IF r.err # "none"
                  THEN [wav EXCEPT !.pc = "error", !.err = r.err]
                  ELSE [wav EXCEPT !.pc = "streaming",
                                   !.riff_header = r.val.riff_header,
                                   !.format = r.val.data_chunk.format,
                                   !.size_bytes = r.val.data_chunk.size_bytes,
                                   !.pos = r.val.data_chunk.pos]
    /\ UNCHANGED <<crc, utf8, rice, riff>>

\* data_chunk.next(), called by the owner of the data chunk
GroupNext ==
    /\ wav.pc = "streaming"
    /\ block_align(wav.format) = 0 => wav.produced < MaxPulls
    /\ LET w == chunk_next([wav EXCEPT !.last_at = wav.pos])
       IN  wav' = IF w.pc # "panicked" /\ w.last_group.tag = "Some"
                  THEN [w EXCEPT !.direct = @ + 1] ELSE w
    /\ UNCHANGED <<crc, utf8, rice, riff>>

\* data_chunk.chunks(chunk_size)
Chunks ==
    /\ wav.pc = "streaming"
    /\ \E c \in 0..MaxChunk :
          wav' = [wav EXCEPT !.pc = "windowed", !.chunk_size = c,
                             !.via = "chunks"]
    /\ UNCHANGED <<crc, utf8, rice, riff>>

\* data_chunk.chunks_byte_rate()
ChunksByteRate ==
    /\ wav.pc = "streaming"
    /\ wav' = [wav EXCEPT !.pc = "windowed",
                          !.chunk_size = byte_rate(wav.format),
                          !.via = "byte_rate"]
    /\ UNCHANGED <<crc, utf8, rice, riff>>

\* window.next()
WindowNext ==
    /\ wav.pc = "windowed"
    /\ (wav.chunk_size = 0 \/ block_align(wav.format) = 0)
          => wav.win_index < MaxPulls
    /\ wav' = window_next(wav)
    /\ UNCHANGED <<crc, utf8, rice, riff>>

Init ==
    /\ \/ \E f \in GoodFiles \cup OddFiles \cup ZeroRateFiles :
             wav = WavNew(TRUE, f)
       \/ wav = WavNew(FALSE, <<>>)
    /\ crc = Idle /\ utf8 = Idle /\ rice = Idle /\ riff = Idle

Next == OpenPcm \/ GroupNext \/ Chunks \/ ChunksByteRate \/ WindowNext

Spec == Init /\ [][Next]_vars

(***************************************************************************)
(* Claims about the sample source.                                         *)
(***************************************************************************)

DataStart == DataChunkPos + 8

\* The format is one the data model admits: at least one channel and a
\* positive whole number of bytes per sample.
ValidFormat ==
    wav.format.num_channels >= 1 /\ wav.format.bps >= 8 /\ wav.format.bps % 8 = 0

\* The file holds all of the payload its data block declares.
HoldsPayload == Len(wav.file) >= DataStart + wav.size_bytes

\* Number of whole groups in the declared payload.
PayloadGroups == wav.size_bytes \div block_align(wav.format)

\* C7: with window size c >= 1 given to chunks() on a fresh data chunk whose
\* payload holds N groups, the pulls return N \div c windows of exactly c
\* groups, then one of N % c groups if that is not zero, then end-of-stream;
\* no window is empty and the windows are the payload's groups in order.
C7_Windows ==
    (/\ wav.pc = "windowed" /\ wav.chunk_size >= 1 /\ wav.direct = 0
     /\ ValidFormat /\ HoldsPayload) =>
        LET c    == wav.chunk_size
            N    == PayloadGroups
            ba   == block_align(wav.format)
            full == N \div c
            all  == full + (IF N % c = 0 THEN 0 ELSE 1)
            j    == wav.win_index
            win  == wav.last_window.val
            grp(g) == decode_group(wav.format,
                          SubSeq(wav.file, DataStart + (g - 1) * ba + 1,
                                 DataStart + g * ba)).samples
        IN  /\ wav.last_window.tag = "Some" =>
                 /\ j <= all
                 /\ Len(win) = (IF j <= full THEN c ELSE N % c)
                 /\ Len(win) >= 1
                 /\ \A i \in 1..Len(win) : win[i] = grp((j - 1) * c + i)
            /\ wav.last_window.tag = "None" => j = all

\* C8: once a pull on the group stream, or on the window iterator, has
\* returned end-of-stream, the value returned by every later pull on it is
\* end-of-stream.
C8_ExhaustedAbsorbing ==
    /\ wav.group_ends >= 1 => wav.last_group = None
    /\ wav.window_ends >= 1 => wav.last_window = None

\* Both iterators have produced something, ended, and been pulled again.
C8_Witness ==
    /\ wav.pc = "windowed"
    /\ wav.direct >= 1 /\ wav.win_index >= 1
    /\ wav.group_ends = MaxEndPulls /\ wav.window_ends = MaxEndPulls
    /\ wav.last_group = None /\ wav.last_window = None

\* The signed integer formed from all the bytes of a sample, little-endian.
RECURSIVE UnsignedLE(_)
UnsignedLE(bytes) ==
    IF bytes = <<>> THEN 0 ELSE Head(bytes) + 256 * UnsignedLE(Tail(bytes))

SignedLE(bytes) ==
    LET u == UnsignedLE(bytes)
    IN  IF u >= 2^(8 * Len(bytes) - 1) THEN u - 2^(8 * Len(bytes)) ELSE u

\* C9: for every valid format a pull never aborts, and a successful pull
\* inside the declared payload consumes channels * bps/8 bytes and returns
\* one sample per channel, in channel order, each the signed little-endian
\* value of all bps/8 bytes of that channel.
C9_GroupDecoding ==
    ValidFormat =>
        /\ wav.pc # "panicked"
        /\ (/\ wav.pc = "streaming" /\ wav.last_group.tag = "Some"
            /\ wav.pos <= DataStart + wav.size_bytes) =>
              LET nb == wav.format.bps \div 8
                  ch == wav.format.num_channels
              IN  /\ wav.pos = wav.last_at + ch * nb
                  /\ Len(wav.last_group.val) = ch
                  /\ \A k \in 1..ch :
                        wav.last_group.val[k] =
                            SignedLE(SubSeq(wav.file,
                                            wav.last_at + (k - 1) * nb + 1,
                                            wav.last_at + k * nb))

\* C10: the group stream ends with the payload: at most
\* size_bytes \div block_align groups are produced, each from bytes inside
\* the declared payload, and a partial group at the end is end-of-stream.
C10_PayloadBound ==
    (wav.pc \in {"streaming", "windowed"} /\ ValidFormat) =>
        /\ wav.produced <= PayloadGroups
        /\ wav.last_group.tag = "Some" => wav.pos <= DataStart + wav.size_bytes
        /\ wav.produced * block_align(wav.format) <= Len(wav.file) - DataStart

\* A window was returned and no pull of the group stream has failed so far:
\* the loop of the window iterator ran to its end, so the window is full.
FullWindow ==
    /\ wav.pc = "windowed" /\ wav.last_window.tag = "Some"
    /\ wav.group_ends = 0

\* C11: every full window of the iterator made by chunks_byte_rate holds one
\* second of audio: samp_rate groups, which are byte_rate bytes of payload.
C11_OneSecond ==
    (/\ wav.via = "byte_rate" /\ FullWindow /\ ValidFormat
     /\ wav.pos <= DataStart + wav.size_bytes) =>
        /\ Len(wav.last_window.val) = wav.format.samp_rate
        /\ Len(wav.last_window.val) * block_align(wav.format)
              = byte_rate(wav.format)

\* The four bytes of the file at offset `at`.
TagAt(at) == SubSeq(wav.file, at + 1, at + 4)

\* The first check or read, in the order identification tag, WAVE tag,
\* "fmt " tag, encoding flag, "data" tag, that the file fails; "none" when
\* it passes them all.
FirstFailure ==
    IF ~wav.present \/ Len(wav.file) < 12 THEN "ReadError"
    ELSE IF TagAt(0) \notin {TagRIFF, TagRIFX} THEN "NotRiffError"
    ELSE IF TagAt(8) # TagWAVE THEN "NotWaveError"
    ELSE IF Len(wav.file) < 36 THEN "ReadError"
    ELSE IF TagAt(12) # TagFmt THEN "ChunkTypeError"
    ELSE IF <<wav.file[21], wav.file[22]>> # <<1, 0>> THEN "NotPCMError"
    ELSE IF Len(wav.file) < DataStart THEN "ReadError"
    ELSE IF TagAt(DataChunkPos) # TagData THEN "ChunkTypeError"
    ELSE "none"

\* C13: open_pcm returns a PCMWaveInfo exactly when the file passes every
\* check; otherwise it returns the error of the first check that fails, with
\* no metadata and no sample source, and no group or window is ever pulled.
C13_AllOrNothing ==
    /\ wav.pc \in {"streaming", "windowed", "panicked"} =>
          FirstFailure = "none" /\ wav.err = "none"
    /\ wav.pc = "error" =>
          /\ FirstFailure # "none" /\ wav.err = FirstFailure
          /\ wav.format = WavNew(TRUE, <<>>).format
          /\ wav.pos = 0 /\ wav.produced = 0 /\ wav.win_index = 0
          /\ wav.last_group = NotYet /\ wav.last_window = NotYet

\* A file rejected at the last check: every tag before "data" matched.
C13_Witness ==
    /\ wav.pc = "error" /\ wav.err = "ChunkTypeError"
    /\ Len(wav.file) >= DataStart
    /\ TagAt(12) = TagFmt /\ TagAt(DataChunkPos) # TagData

\* C14: pulling windows ends after finitely many pulls, whatever the window
\* size: a returned window is never empty, so the windows returned are never
\* more than the whole groups the file holds after the payload header.
C14_WindowsTerminate ==
    wav.pc = "windowed" =>
        /\ wav.last_window.tag = "Some" => Len(wav.last_window.val) >= 1
        /\ ValidFormat =>
              wav.win_index <=
                  (Len(wav.file) - DataStart) \div block_align(wav.format)

====
